---- MODULE Spec2Model ----
(***************************************************************************)
(* Model of timesheet_cli (src/src/main.rs): the two SQLite tables, the    *)
(* template and log management loops, the monthly aggregation of           *)
(* handle_month, the calendar grid and total formulas written by           *)
(* export_timesheet, and the defaults the prompts take from the date of    *)
(* the run.                                                                *)
(*                                                                         *)
(* Text is modelled as a sequence of one-character strings, so that        *)
(* splitting, parsing and formatting of week strings and of spreadsheet    *)
(* column names are computed, not assumed.  Hours are integers.            *)
(***************************************************************************)
EXTENDS Integers, Sequences, FiniteSets, TLC

VARIABLES
    templates,      \* rows of table templates: [id, project, hours]
    timesheets,     \* rows of table timesheets: [id, week, project, hours]
    mode,           \* "main" | "templates" | "seed" | "log": the running
                    \* command; in handle_log the seed prompt or the menu
    week,           \* the week typed at the start of handle_log
    result,         \* outcome of the last conn.execute: "ok" | "DuplicateKey"
    output,         \* what the last handler step printed as an error
    month_view,     \* result of the last handle_month aggregation
    sheet           \* worksheet built by the last export_timesheet

vars == <<templates, timesheets, mode, week, result, output, month_view, sheet>>

----------------------------------------------------------------------------
(* Bounds of the model *)

MaxRows == 2            \* timesheets rows of a store drawn at the start
MaxEntryId == 2         \* largest rowid handed out in table timesheets
MaxTemplateId == 2      \* largest rowid handed out in table templates

----------------------------------------------------------------------------
(* Text *)

Digits == <<"0", "1", "2", "3", "4", "5", "6", "7", "8", "9">>

IsDigit(c) == \E i \in 1..10 : Digits[i] = c

DigitVal(c) == (CHOOSE i \in 1..10 : Digits[i] = c) - 1

\* Option / Result: None (or Err) is the empty tuple, Some(v) holds v
None == <<>>

Some(v) == <<v>>

MaxI32 == 2147483647

\* the digit loop of core::num from_str_radix: the value of an all-digit
\* text, None on a non-digit or when the value passes lim (checked_mul /
\* checked_add overflow)
RECURSIVE ParseDigits(_, _, _)
ParseDigits(s, acc, lim) ==
    IF s = <<>> THEN Some(acc)
    ELSE IF ~IsDigit(Head(s)) THEN None
    ELSE IF acc > (lim - DigitVal(Head(s))) \div 10 THEN None
    ELSE ParseDigits(Tail(s), 10 * acc + DigitVal(Head(s)), lim)

\* str::parse::<i32>(): optional sign, at least one digit, no overflow
\* (-2147483648 itself is reported as overflow here: the integers of TLC
\* are 32 bits wide)
ParseI32(s) ==
    IF s = <<>> THEN None
    ELSE LET signed == Head(s) \in {"+", "-"}
             body == IF signed THEN Tail(s) ELSE s
             mag == IF body = <<>> THEN None ELSE ParseDigits(body, 0, MaxI32)
         IN  IF mag = None THEN None
             ELSE IF Head(s) = "-" THEN Some(0 - mag[1]) ELSE mag

\* str::parse::<u32>(): optional "+", at least one digit, no overflow.
\* Values above 2147483647 are reported as overflow: as a week number both
\* such a value and the default 0 name no ISO week.
ParseU32(s) ==
    IF s = <<>> THEN None
    ELSE LET body == IF Head(s) = "+" THEN Tail(s) ELSE s
         IN  IF body = <<>> THEN None ELSE ParseDigits(body, 0, MaxI32)

\* Result::unwrap_or_default() of a numeric parse
UnwrapOrDefault(v) == IF v = None THEN 0 ELSE v[1]

\* str::split("-W"): the pieces between the non-overlapping matches
RECURSIVE SplitFrom(_, _, _)
SplitFrom(s, i, cur) ==
    IF i > Len(s) THEN <<cur>>
    ELSE IF i < Len(s) /\ s[i] = "-" /\ s[i + 1] = "W"
         THEN <<cur>> \o SplitFrom(s, i + 2, <<>>)
         ELSE SplitFrom(s, i + 1, Append(cur, s[i]))

SplitWeek(s) == SplitFrom(s, 1, <<>>)

\* Display of a non-negative integer: its decimal digits
RECURSIVE NatToText(_)
NatToText(n) ==
    IF n < 10 THEN <<Digits[n + 1]>>
    ELSE Append(NatToText(n \div 10), Digits[(n % 10) + 1])

\* format!("{}", n) of an i32
IntToText(n) == IF n < 0 THEN <<"-">> \o NatToText(0 - n) ELSE NatToText(n)

\* format!("{:02}", n) of a u32
Pad2(n) == IF n < 10 THEN <<"0">> \o NatToText(n) ELSE NatToText(n)

\* format!("{}-W{:02}", year, week)
FormatWeek(y, w) == IntToText(y) \o <<"-", "W">> \o Pad2(w)

----------------------------------------------------------------------------
(* Calendar (chrono::NaiveDate), proleptic Gregorian *)

\* days since 1970-01-01 of a civil date
DaysFromCivil(y, m, d) ==
    LET yy == IF m <= 2 THEN y - 1 ELSE y
        era == yy \div 400
        yoe == yy - era * 400
        mp == (m + 9) % 12
        doy == (153 * mp + 2) \div 5 + d - 1
        doe == yoe * 365 + yoe \div 4 - yoe \div 100 + doy
    IN  era * 146097 + doe - 719468

\* the civil date of a day number
CivilFromDays(z) ==
    LET zz == z + 719468
        era == zz \div 146097
        doe == zz - era * 146097
        yoe == (doe - doe \div 1460 + doe \div 36524 - doe \div 146096) \div 365
        doy == doe - (365 * yoe + yoe \div 4 - yoe \div 100)
        mp == (5 * doy + 2) \div 153
        d == doy - (153 * mp + 2) \div 5 + 1
        m == IF mp < 10 THEN mp + 3 ELSE mp - 9
        y == yoe + era * 400
    IN  [year |-> IF m <= 2 THEN y + 1 ELSE y, month |-> m, day |-> d]

\* Datelike::weekday(), Mon = 1 .. Sun = 7
WeekdayOf(z) == ((z + 3) % 7) + 1

IsLeap(y) == (y % 4 = 0 /\ y % 100 # 0) \/ y % 400 = 0

DaysInMonth(y, m) ==
    IF m = 2 THEN (IF IsLeap(y) THEN 29 ELSE 28)
    ELSE IF m \in {4, 6, 9, 11} THEN 30 ELSE 31

\* NaiveDate::from_ymd_opt
FromYmdOpt(y, m, d) ==
    IF m \in 1..12 /\ d >= 1 /\ d <= DaysInMonth(y, m)
    THEN Some([year |-> y, month |-> m, day |-> d])
    ELSE None

\* Monday of ISO week 1 of a year: the Monday of the week holding 4 January
Week1Monday(y) ==
    LET j4 == DaysFromCivil(y, 1, 4)
    IN  j4 - (WeekdayOf(j4) - 1)

\* number of ISO weeks of a year: 52 or 53
WeeksInYear(y) == (Week1Monday(y + 1) - Week1Monday(y)) \div 7

\* from_isoywd_opt without the range test: a week past the last one runs
\* on into the next year, week 0 back into the year before
FromIsoywdOpt_Rolling(y, w, wd) ==
    Some(CivilFromDays(Week1Monday(y) + 7 * (w - 1) + (wd - 1)))

\* NaiveDate::from_isoywd_opt: None when the week does not exist in the year
FromIsoywdOpt(y, w, wd) ==
    IF w < 1 \/ w > WeeksInYear(y) THEN None
    ELSE Some(CivilFromDays(Week1Monday(y) + 7 * (w - 1) + (wd - 1)))

\* Datelike::iso_week(): the ISO year and week of a civil date
IsoWeekOf(date) ==
    LET z == DaysFromCivil(date.year, date.month, date.day)
        thursday == z - (WeekdayOf(z) - 1) + 3
        iy == CivilFromDays(thursday).year
    IN  [year |-> iy, week |-> (thursday - Week1Monday(iy)) \div 7 + 1]

WeekdayOfDate(date) == WeekdayOf(DaysFromCivil(date.year, date.month, date.day))

----------------------------------------------------------------------------
(* Inputs of the model: what the user may type or pick *)

Projects == {"Acme", "Beta"}

\* week texts: the prompt of handle_log accepts any text
Wk2024W05 == <<"2", "0", "2", "4", "-", "W", "0", "5">>
Wk2024W5 == <<"2", "0", "2", "4", "-", "W", "5">>
Wk2024NoSep == <<"2", "0", "2", "4", "W", "0", "5">>
WkBadYear == <<"x", "-", "W", "0", "5">>
WkBadWeek == <<"2", "0", "2", "4", "-", "W", "x", "x">>
Wk2023W53 == <<"2", "0", "2", "3", "-", "W", "5", "3">>
Wk2020W53 == <<"2", "0", "2", "0", "-", "W", "5", "3">>
Wk2024W00 == <<"2", "0", "2", "4", "-", "W", "0", "0">>
Wk2023W05 == <<"2", "0", "2", "3", "-", "W", "0", "5">>

WeekList ==
    <<Wk2024W05, Wk2024W5, Wk2024NoSep, WkBadYear, WkBadWeek,
      Wk2023W53, Wk2020W53, Wk2024W00>>

WeekTexts == {WeekList[i] : i \in DOMAIN WeekList}

\* hours of a week, Mon..Sun
HoursWorkWeek == <<8, 8, 8, 8, 8, 0, 0>>
HoursMixed == <<0, 0, 4, 0, 0, 0 - 2, 6>>
HoursWeekend == <<0, 0, 0, 0, 0, 4, 4>>
HoursZero == <<0, 0, 0, 0, 0, 0, 0>>

\* week texts typed at the prompt of handle_log in the management loops
LogWeeks == {Wk2024W05, Wk2024W5}

\* hours typed at prompt_week_hours
TemplateHours == {HoursWorkWeek, HoursWeekend}

\* day picked and hours typed at 'Edit Day'
DayChoices == {7}

EditValues == {0 - 1}

\* (year, month) answers to the prompts of handle_month
MonthInputs == {<<2024, 1>>, <<2024, 2>>, <<0, 1>>, <<2021, 1>>, <<2024, 13>>}

----------------------------------------------------------------------------
(* Tables *)

\* SELECT ... FROM table: the rows in rowid order
RECURSIVE RowsInOrder(_)
RowsInOrder(table) ==
    IF table = {} THEN <<>>
    ELSE LET first == CHOOSE r \in table : \A q \in table : r.id <= q.id
         IN  <<first>> \o RowsInOrder(table \ {first})

\* INTEGER PRIMARY KEY of an inserted row: one more than the largest rowid
NextId(table) ==
    IF table = {} THEN 1
    ELSE (CHOOSE i \in {r.id : r \in table} : \A r \in table : r.id <= i) + 1

\* the sum of the values of a map
RECURSIVE SumMap(_)
SumMap(m) ==
    IF DOMAIN m = {} THEN 0
    ELSE LET k == CHOOSE x \in DOMAIN m : TRUE
         IN  m[k] + SumMap([x \in DOMAIN m \ {k} |-> m[x]])

\* the maps of handle_month (BTreeMap / HashMap) and what it shows
EmptyMap == [k \in {} |-> 0]

\* *map.entry(k).or_insert(0.0) += h
MapAdd(m, k, h) ==
    [x \in DOMAIN m \cup {k} |->
        IF x = k THEN (IF k \in DOMAIN m THEN m[k] ELSE 0) + h ELSE m[x]]

\* *project_rows.entry(project).or_default().entry(d).or_insert(0.0) += h
NestedAdd(m, p, d, h) ==
    [x \in DOMAIN m \cup {p} |->
        IF x = p THEN MapAdd(IF p \in DOMAIN m THEN m[p] ELSE EmptyMap, d, h)
        ELSE m[x]]

EmptyView ==
    [shown |-> FALSE, year |-> 0, month |-> 0,
     project_rows |-> EmptyMap, col_totals |-> EmptyMap, grand_total |-> 0]

\* Workbook::new(): a worksheet without cells, merged ranges or images
EmptySheet == [cells |-> EmptyMap, merges |-> {}, images |-> {}]

----------------------------------------------------------------------------
(* init_db: the two tables and their UNIQUE constraints *)

UniqueError == "Error: UNIQUE constraint failed"

\* templates.project UNIQUE
TemplateKeyTaken(project) == \E t \in templates : t.project = project

\* table timesheets without its UNIQUE(week, project)
EntryKeyTaken_NoConstraint(w, project) == FALSE

\* timesheets UNIQUE(week, project)
EntryKeyTaken(w, project) ==
    \E e \in timesheets : e.week = w /\ e.project = project

\* SELECT ... FROM timesheets WHERE week = ?1
Entries(w) == {e \in timesheets : e.week = w}

----------------------------------------------------------------------------
(* handle_templates: the template management loop *)

StartTemplates ==
    /\ mode = "main"
    /\ mode' = "templates"
    /\ result' = "ok"
    /\ output' = "none"
    /\ UNCHANGED <<templates, timesheets, week, month_view, sheet>>

\* "Create New" with the project name and the seven hours typed
TemplateCreate(project, hours) ==
    /\ mode = "templates"
    /\ IF project = ""
       THEN /\ result' = "ok"
            /\ output' = "none"
            /\ UNCHANGED templates
       ELSE IF TemplateKeyTaken(project)
       THEN /\ result' = "DuplicateKey"
            /\ output' = UniqueError
            /\ UNCHANGED templates
       ELSE /\ NextId(templates) <= MaxTemplateId
            /\ templates' = templates \cup
                   {[id |-> NextId(templates), project |-> project, hours |-> hours]}
            /\ result' = "ok"
            /\ output' = "none"
    /\ UNCHANGED <<timesheets, mode, week, month_view, sheet>>

\* "Edit Existing": UPDATE templates SET mon.. WHERE id
TemplateEdit(id, hours) ==
    /\ mode = "templates"
    /\ \E t \in templates : t.id = id
    /\ templates' = {IF t.id = id THEN [t EXCEPT !.hours = hours] ELSE t : t \in templates}
    /\ result' = "ok"
    /\ output' = "none"
    /\ UNCHANGED <<timesheets, mode, week, month_view, sheet>>

\* "Delete", confirmed: DELETE FROM templates WHERE id
TemplateDelete(id) ==
    /\ mode = "templates"
    /\ \E t \in templates : t.id = id
    /\ templates' = {t \in templates : t.id # id}
    /\ result' = "ok"
    /\ output' = "none"
    /\ UNCHANGED <<timesheets, mode, week, month_view, sheet>>

TemplateExit ==
    /\ mode = "templates"
    /\ mode' = "main"
    /\ result' = "ok"
    /\ output' = "none"
    /\ UNCHANGED <<templates, timesheets, week, month_view, sheet>>

----------------------------------------------------------------------------
(* handle_log: the management loop of one week's entries *)

\* the head of the loop offering the seed prompt without looking at the
\* entries
ListingMode_AlwaysPrompt(table, w) == "seed"

\* the head of the loop: the entries of the week are loaded, and the seed
\* prompt ("seed") comes before the menu ("log") when there are none
ListingMode(table, w) ==
    IF {e \in table : e.week = w} = {} THEN "seed" ELSE "log"

\* the week prompt answered with w
StartLog(w) ==
    /\ mode = "main"
    /\ mode' = ListingMode(timesheets, w)
    /\ week' = w
    /\ result' = "ok"
    /\ output' = "none"
    /\ UNCHANGED <<templates, timesheets, month_view, sheet>>

\* the seed insert naming the project column only: hours take DEFAULT 0
SeedRows_ProjectOnly(w) ==
    LET ts == RowsInOrder(templates)
    IN  {[id |-> NextId(timesheets) + i - 1, week |-> w,
          project |-> ts[i].project, hours |-> HoursZero] : i \in DOMAIN ts}

\* INSERT INTO timesheets (week, ...) SELECT ?1, project, mon.. FROM templates
SeedRows(w) ==
    LET ts == RowsInOrder(templates)
    IN  {[id |-> NextId(timesheets) + i - 1, week |-> w,
          project |-> ts[i].project, hours |-> ts[i].hours] : i \in DOMAIN ts}

\* "Load defaults from Templates?" confirmed, then `continue`; a constraint
\* failure of the insert is propagated by `?` and ends the command
LogSeed ==
    /\ mode = "seed"
    /\ NextId(timesheets) + Cardinality(templates) - 1 <= MaxEntryId
    /\ IF \E t \in templates : EntryKeyTaken(week, t.project)
       THEN /\ result' = "DuplicateKey"
            /\ output' = UniqueError
            /\ mode' = "main"
            /\ week' = <<>>
            /\ UNCHANGED timesheets
       ELSE /\ timesheets' = timesheets \cup SeedRows(week)
            /\ mode' = ListingMode(timesheets', week)
            /\ result' = "ok"
            /\ output' = "none"
            /\ UNCHANGED week
    /\ UNCHANGED <<templates, month_view, sheet>>

\* "Load defaults from Templates?" declined or cancelled: the table and the
\* menu are shown for the week without entries
LogDeclineSeed ==
    /\ mode = "seed"
    /\ mode' = "log"
    /\ result' = "ok"
    /\ output' = "none"
    /\ UNCHANGED <<templates, timesheets, week, month_view, sheet>>

\* the update keyed by the project of the picked entry instead of its id
UpdateDay_ByProject(table, id, day, val) ==
    LET picked == CHOOSE e \in table : e.id = id
    IN  {IF e.project = picked.project THEN [e EXCEPT !.hours[day] = val] ELSE e :
         e \in table}

\* UPDATE timesheets SET <col> = ?1 WHERE id = ?2
UpdateDay(table, id, day, val) ==
    {IF e.id = id THEN [e EXCEPT !.hours[day] = val] ELSE e : e \in table}

\* "Edit Day": entry picked among the week's entries, day picked, hours typed
LogEditDay(id, day, new_val) ==
    /\ mode = "log"
    /\ \E e \in Entries(week) : e.id = id
    /\ timesheets' = UpdateDay(timesheets, id, day, new_val)
    /\ mode' = ListingMode(timesheets', week)
    /\ result' = "ok"
    /\ output' = "none"
    /\ UNCHANGED <<templates, week, month_view, sheet>>

\* "Add Project": INSERT INTO timesheets (week, project), its error dropped
\* by .ok()
LogAddProject(project) ==
    /\ mode = "log"
    /\ IF project = ""
       THEN /\ result' = "ok"
            /\ UNCHANGED timesheets
       ELSE IF EntryKeyTaken(week, project)
       THEN /\ result' = "DuplicateKey"
            /\ UNCHANGED timesheets
       ELSE /\ NextId(timesheets) <= MaxEntryId
            /\ timesheets' = timesheets \cup
                   {[id |-> NextId(timesheets), week |-> week,
                     project |-> project, hours |-> HoursZero]}
            /\ result' = "ok"
    /\ mode' = ListingMode(timesheets', week)
    /\ output' = "none"
    /\ UNCHANGED <<templates, week, month_view, sheet>>

\* "Remove Project": DELETE FROM timesheets WHERE id
LogRemoveProject(id) ==
    /\ mode = "log"
    /\ \E e \in Entries(week) : e.id = id
    /\ timesheets' = {e \in timesheets : e.id # id}
    /\ mode' = ListingMode(timesheets', week)
    /\ result' = "ok"
    /\ output' = "none"
    /\ UNCHANGED <<templates, week, month_view, sheet>>

LogExit ==
    /\ mode = "log"
    /\ mode' = "main"
    /\ week' = <<>>
    /\ result' = "ok"
    /\ output' = "none"
    /\ UNCHANGED <<templates, timesheets, month_view, sheet>>

----------------------------------------------------------------------------
(* The template and log commands on a database that starts empty *)

Ids == 1..(MaxEntryId + MaxTemplateId)

Init ==
    /\ templates = {}
    /\ timesheets = {}
    /\ mode = "main"
    /\ week = <<>>
    /\ result = "ok"
    /\ output = "none"
    /\ month_view = EmptyView
    /\ sheet = EmptySheet

Next ==
    \/ StartTemplates
    \/ \E p \in Projects \cup {""}, h \in TemplateHours : TemplateCreate(p, h)
    \/ \E id \in Ids, h \in TemplateHours : TemplateEdit(id, h)
    \/ \E id \in Ids : TemplateDelete(id)
    \/ TemplateExit
    \/ \E w \in LogWeeks : StartLog(w)
    \/ LogSeed
    \/ LogDeclineSeed
    \/ \E id \in Ids, d \in DayChoices, v \in EditValues : LogEditDay(id, d, v)
    \/ \E p \in Projects \cup {""} : LogAddProject(p)
    \/ \E id \in Ids : LogRemoveProject(id)
    \/ LogExit

Spec == Init /\ [][Next]_vars

----------------------------------------------------------------------------
(* handle_month: monthly aggregation *)

\* DayAccumulate with grand_total raised before the month is compared
DayAccumulate_TotalEarly(acc, project, w_year, w_num, day_idx, h, sy, sm) ==
    IF h = 0 THEN acc
    ELSE LET date == FromIsoywdOpt(w_year, w_num, day_idx + 1)
         IN  IF date = None THEN acc
             ELSE IF date[1].year = sy /\ date[1].month = sm
                  THEN [acc EXCEPT
                          !.project_rows = NestedAdd(@, project, date[1].day, h),
                          !.col_totals = MapAdd(@, date[1].day, h),
                          !.grand_total = @ + h]
                  ELSE [acc EXCEPT !.grand_total = @ + h]

\* DayAccumulate comparing the year only
DayAccumulate_NoMonth(acc, project, w_year, w_num, day_idx, h, sy, sm) ==
    IF h = 0 THEN acc
    ELSE LET date == FromIsoywdOpt(w_year, w_num, day_idx + 1)
         IN  IF date = None THEN acc
             ELSE IF date[1].year = sy
                  THEN [acc EXCEPT
                          !.project_rows = NestedAdd(@, project, date[1].day, h),
                          !.col_totals = MapAdd(@, date[1].day, h),
                          !.grand_total = @ + h]
                  ELSE acc

\* DayAccumulate storing the hours in the cell instead of adding them
DayAccumulate_Overwrite(acc, project, w_year, w_num, day_idx, h, sy, sm) ==
    IF h = 0 THEN acc
    ELSE LET date == FromIsoywdOpt(w_year, w_num, day_idx + 1)
             held == IF /\ project \in DOMAIN acc.project_rows
                        /\ date[1].day \in DOMAIN acc.project_rows[project]
                     THEN acc.project_rows[project][date[1].day]
                     ELSE 0
         IN  IF date = None THEN acc
             ELSE IF date[1].year = sy /\ date[1].month = sm
                  THEN [acc EXCEPT
                          !.project_rows = NestedAdd(@, project, date[1].day, h - held),
                          !.col_totals = MapAdd(@, date[1].day, h),
                          !.grand_total = @ + h]
                  ELSE acc

\* the body of the loop over the seven hours of a row
DayAccumulate(acc, project, w_year, w_num, day_idx, h, sy, sm) ==
    IF h = 0 THEN acc
    ELSE LET date == FromIsoywdOpt(w_year, w_num, day_idx + 1)
         IN  IF date = None THEN acc
             ELSE IF date[1].year = sy /\ date[1].month = sm
                  THEN [acc EXCEPT
                          !.project_rows = NestedAdd(@, project, date[1].day, h),
                          !.col_totals = MapAdd(@, date[1].day, h),
                          !.grand_total = @ + h]
                  ELSE acc

\* for (day_idx, &h) in hours.iter().enumerate()
RECURSIVE DaysLoop(_, _, _, _, _, _, _)
DaysLoop(acc, row, w_year, w_num, day_idx, sy, sm) ==
    IF day_idx > 6 THEN acc
    ELSE DaysLoop(
            DayAccumulate(acc, row.project, w_year, w_num, day_idx,
                          row.hours[day_idx + 1], sy, sm),
            row, w_year, w_num, day_idx + 1, sy, sm)

\* the body of the loop over the stored rows
RowAccumulate(acc, row, sy, sm) ==
    LET parts == SplitWeek(row.week)
    IN  IF Len(parts) # 2 THEN acc
        ELSE DaysLoop(acc, row,
                      UnwrapOrDefault(ParseI32(parts[1])),
                      UnwrapOrDefault(ParseU32(parts[2])),
                      0, sy, sm)

\* for r in rows
RECURSIVE RowsLoop(_, _, _, _)
RowsLoop(acc, rows, sy, sm) ==
    IF rows = <<>> THEN acc
    ELSE RowsLoop(RowAccumulate(acc, Head(rows), sy, sm), Tail(rows), sy, sm)

Aggregate(rows, sy, sm) ==
    RowsLoop([EmptyView EXCEPT !.shown = TRUE, !.year = sy, !.month = sm],
             rows, sy, sm)

\* handle_month with the answers (sy, sm) to its two prompts
HandleMonth(sy, sm) ==
    LET next_month == IF sm = 12 THEN 1 ELSE sm + 1
        next_year_val == IF sm = 12 THEN sy + 1 ELSE sy
    IN  /\ mode = "main"
        /\ IF FromYmdOpt(next_year_val, next_month, 1) = None
           THEN /\ output' = "Invalid Date Calculation"
                /\ month_view' = EmptyView
           ELSE LET view == Aggregate(RowsInOrder(timesheets), sy, sm)
                IN  /\ output' = IF DOMAIN view.project_rows = {}
                                 THEN "No data found" ELSE "none"
                    /\ month_view' = view
        /\ UNCHANGED <<templates, timesheets, mode, week, result, sheet>>

----------------------------------------------------------------------------
(* Stores the program can hold: any week text can be typed in handle_log,   *)
(* any hours can be reached by seeding and editing days                     *)

\* project and hours of the rows drawn
RowKinds ==
    <<[project |-> "Acme", hours |-> HoursWorkWeek],
      [project |-> "Beta", hours |-> HoursMixed],
      [project |-> "Acme", hours |-> HoursMixed]>>

RowChoices(weeks) == (DOMAIN weeks) \X (DOMAIN RowKinds)

\* rows are drawn in one order of insertion (the aggregation reads them in
\* rowid order) and never twice with the same (week, project)
Before(a, b) ==
    \/ a[1] < b[1]
    \/ /\ a[1] = b[1]
       /\ a[2] < b[2]
       /\ RowKinds[a[2]].project # RowKinds[b[2]].project

StoreOf(weeks, f) ==
    {[id |-> i, week |-> weeks[f[i][1]], project |-> RowKinds[f[i][2]].project,
      hours |-> RowKinds[f[i][2]].hours] : i \in DOMAIN f}

\* the stores of at most MaxRows rows with week texts of a list
StoresOver(weeks) ==
    UNION {{StoreOf(weeks, f) :
               f \in {g \in [1..n -> RowChoices(weeks)] :
                          \A i, j \in 1..n : i < j => Before(g[i], g[j])}} :
           n \in 0..MaxRows}

Stores == StoresOver(WeekList)

InitMonth ==
    /\ timesheets \in Stores
    /\ templates = {}
    /\ mode = "main"
    /\ week = <<>>
    /\ result = "ok"
    /\ output = "none"
    /\ month_view = EmptyView
    /\ sheet = EmptySheet

NextMonth == \E ym \in MonthInputs : HandleMonth(ym[1], ym[2])

SpecMonth == InitMonth /\ [][NextMonth]_vars

----------------------------------------------------------------------------
(* export_timesheet: the worksheet.  Cells are keyed by <<row, column>>,    *)
(* both counted from 0; formats, widths and print settings are left out.   *)

Letters ==
    <<"A", "B", "C", "D", "E", "F", "G", "H", "I", "J", "K", "L", "M",
      "N", "O", "P", "Q", "R", "S", "T", "U", "V", "W", "X", "Y", "Z">>

\* rust_xlsxwriter::column_number_to_name: 0 is "A", 25 "Z", 26 "AA"
RECURSIVE ColumnNumberToName(_)
ColumnNumberToName(n) ==
    IF n < 26 THEN <<Letters[n + 1]>>
    ELSE Append(ColumnNumberToName(n \div 26 - 1), Letters[(n % 26) + 1])

\* the column a name in a formula refers to, counted from 0
RECURSIVE ColumnNameToNumber(_)
ColumnNameToNumber(name) ==
    LET last == (CHOOSE i \in 1..26 : Letters[i] = name[Len(name)])
    IN  IF Len(name) = 1 THEN last - 1
        ELSE (ColumnNameToNumber(SubSeq(name, 1, Len(name) - 1)) + 1) * 26 + last - 1

StringCell(t) == [kind |-> "string", val |-> t]
NumberCell(n) == [kind |-> "number", val |-> n]
BlankCell == [kind |-> "blank", val |-> 0]
FormulaCell(f) == [kind |-> "formula", val |-> f]

\* format!("=SUM({}{}:{}{})", c1, r1, c2, r2): rows as the sheet numbers
\* them, from 1
SumFormula(c1, r1, c2, r2) ==
    [fn |-> "SUM", c1 |-> c1, r1 |-> r1, c2 |-> c2, r2 |-> r2, k |-> 0]

\* format!("={}{}/121*{}", c, r, k)
ScaleFormula(c, r, k) ==
    [fn |-> "SCALE", c1 |-> c, r1 |-> r, c2 |-> c, r2 |-> r, k |-> k]

\* a later write to a cell replaces an earlier one
Override(a, b) ==
    [x \in DOMAIN a \cup DOMAIN b |-> IF x \in DOMAIN b THEN b[x] ELSE a[x]]

EmployeeName == "John Doe"
EmployeeTitle == "Enterprise Architect"
EmployeePhone == "000000000"

month_name(month_num) ==
    CASE month_num = 1 -> "Januari"
      [] month_num = 2 -> "Februari"
      [] month_num = 3 -> "Maart"
      [] month_num = 4 -> "April"
      [] month_num = 5 -> "Mei"
      [] month_num = 6 -> "Juni"
      [] month_num = 7 -> "Juli"
      [] month_num = 8 -> "Augustus"
      [] month_num = 9 -> "September"
      [] month_num = 10 -> "Oktober"
      [] month_num = 11 -> "November"
      [] month_num = 12 -> "December"
      [] OTHER -> "Onbekend"

\* now.format("%d-%m-%Y")
FormatDate(date) ==
    Pad2(date.day) \o <<"-">> \o Pad2(date.month) \o <<"-">> \o IntToText(date.year)

days_map(w) ==
    CASE w = 1 -> "Ma" [] w = 2 -> "Di" [] w = 3 -> "Wo" [] w = 4 -> "Do"
      [] w = 5 -> "Vr" [] w = 6 -> "Za" [] OTHER -> "Zo"

start_row_cal == 14
start_row_hours == 16
total_facturabel_row == start_row_hours + 5
expense_start_row == total_facturabel_row + 3
exp_header_row == expense_start_row + 1
exp_total_row == exp_header_row + 5
sign_row == exp_total_row + 3

\* SELECT <col> FROM timesheets WHERE week = ?1 AND project = ?2, .optional()
StoredHours(table, week_str, project, weekday) ==
    LET hit == {e \in table : e.week = week_str /\ e.project = project}
    IN  IF hit = {} THEN None
        ELSE Some((CHOOSE e \in hit : \A q \in hit : e.id <= q.id).hours[weekday])

\* HoursCell writing every value that is not zero
HoursCell_NonZero(table, project, date) ==
    LET iso_week == IsoWeekOf(date)
        week_str == FormatWeek(iso_week.year, iso_week.week)
        hours == StoredHours(table, week_str, project, WeekdayOfDate(date))
        val == IF hours = None THEN 0 ELSE hours[1]
    IN  IF val # 0 THEN NumberCell(val) ELSE BlankCell

\* the hours-row cell of a valid day: the stored hours of the date's ISO
\* week and weekday when above zero, a blank otherwise
HoursCell(table, project, date) ==
    LET iso_week == IsoWeekOf(date)
        week_str == FormatWeek(iso_week.year, iso_week.week)
        hours == StoredHours(table, week_str, project, WeekdayOfDate(date))
        val == IF hours = None THEN 0 ELSE hours[1]
    IN  IF val > 0 THEN NumberCell(val) ELSE BlankCell

\* the title, identity and month blocks and the address lines
HeaderCells(project, sy, sm, now) ==
    (<<1, 1>> :> StringCell("TIJDVERANTWOORDINGSFORMULIER"))
    @@ (<<3, 1>> :> StringCell("Naam medewerker"))
    @@ (<<3, 2>> :> StringCell(EmployeeName))
    @@ (<<4, 1>> :> StringCell("Functie in opdracht"))
    @@ (<<4, 2>> :> StringCell(EmployeeTitle))
    @@ (<<5, 1>> :> StringCell("Telefoonnummer"))
    @@ (<<5, 2>> :> StringCell(EmployeePhone))
    @@ (<<7, 1>> :> StringCell("Opdrachtgever"))
    @@ (<<7, 2>> :> StringCell(project))
    @@ (<<8, 1>> :> StringCell("Functie"))
    @@ (<<8, 2>> :> StringCell(""))
    @@ (<<9, 1>> :> StringCell("Projectnaam"))
    @@ (<<9, 2>> :> StringCell(""))
    @@ (<<10, 1>> :> StringCell("Projectnummer"))
    @@ (<<10, 2>> :> StringCell(""))
    @@ (<<3, 12>> :> StringCell("Maand"))
    @@ (<<4, 12>> :> StringCell("Jaar"))
    @@ (<<5, 12>> :> StringCell("Invuldatum"))
    @@ (<<3, 16>> :> StringCell(month_name(sm)))
    @@ (<<4, 16>> :> StringCell(IntToText(sy)))
    @@ (<<5, 16>> :> StringCell(FormatDate(now)))
    @@ (<<7, 23>> :> StringCell("Hoeksekade 160"))
    @@ (<<8, 23>> :> StringCell("2661, JL Bergschenhoek"))

HeaderMerges ==
    {<<r, 2, r, 9>> : r \in {3, 4, 5, 7, 8, 9, 10}}
    \cup {<<r, 12, r, 15>> : r \in {3, 4, 5}}
    \cup {<<r, 16, r, 20>> : r \in {3, 4, 5}}

\* col_idx + 1: the column of a day of the month
DayColumn(day) == day + 1

\* CalendarCells without the test of the date: label, day number and hours
\* cell for each of the 31 days, the weekday taken from the days counted on
\* from the first of the month
CalendarCells_NoDateTest(table, project, sy, sm) ==
    [rc \in {start_row_cal, start_row_cal + 1, start_row_hours}
            \X {DayColumn(day) : day \in 1..31} |->
        LET day == CHOOSE d \in 1..31 : DayColumn(d) = rc[2]
            date == CivilFromDays(DaysFromCivil(sy, sm, 1) + day - 1)
        IN  IF rc[1] = start_row_cal
            THEN StringCell(days_map(WeekdayOfDate(date)))
            ELSE IF rc[1] = start_row_cal + 1 THEN NumberCell(day)
            ELSE HoursCell(table, project, date)]

\* for day in 1..=31: calendar header and hours row
CalendarCells(table, project, sy, sm) ==
    [rc \in {start_row_cal, start_row_cal + 1, start_row_hours}
            \X {DayColumn(day) : day \in 1..31} |->
        LET day == CHOOSE d \in 1..31 : DayColumn(d) = rc[2]
            date == FromYmdOpt(sy, sm, day)
        IN  IF date = None THEN BlankCell
            ELSE IF rc[1] = start_row_cal
                 THEN StringCell(days_map(WeekdayOfDate(date[1])))
            ELSE IF rc[1] = start_row_cal + 1 THEN NumberCell(day)
            ELSE HoursCell(table, project, date[1])]

\* the four empty rows under the hours row
BlankRowCells ==
    [rc \in ((start_row_hours + 1)..(start_row_hours + 4)) \X (1..32) |-> BlankCell]

\* "Row Totals": for r in 0..5
RowTotalCells ==
    [rc \in (start_row_hours..(start_row_hours + 4)) \X {33} |->
        FormulaCell(SumFormula(<<"B">>, rc[1] + 1, <<"A", "F">>, rc[1] + 1))]

\* "Column Totals": for c in 2..=32
ColumnTotalCells ==
    [rc \in {total_facturabel_row} \X (2..32) |->
        FormulaCell(SumFormula(ColumnNumberToName(rc[2]), start_row_hours + 1,
                               ColumnNumberToName(rc[2]), total_facturabel_row))]

\* "Grand Total"
GrandTotalCell ==
    FormulaCell(SumFormula(<<"A", "H">>, start_row_hours + 1,
                           <<"A", "H">>, total_facturabel_row))

GridCells(table, project, sy, sm) ==
    (<<start_row_hours, 1>> :> StringCell("Gewerkte uren"))
    @@ CalendarCells(table, project, sy, sm)
    @@ BlankRowCells
    @@ (<<start_row_cal + 1, 33>> :> StringCell("Totaal"))
    @@ RowTotalCells
    @@ (<<total_facturabel_row, 1>> :> StringCell("Totaal facturabel"))
    @@ ColumnTotalCells
    @@ (<<total_facturabel_row, 33>> :> GrandTotalCell)

\* the expense block; in each line the two formulas replace the merged
\* blanks and the zeros written before them
ExpenseCells ==
    (<<expense_start_row, 1>> :>
        StringCell("Onkostendeclaratie medewerker (bonnen bijvoegen)"))
    @@ (<<exp_header_row, 1>> :> StringCell("Datum"))
    @@ (<<exp_header_row, 3>> :> StringCell("Omschrijving"))
    @@ (<<exp_header_row, 23>> :> StringCell("Bedrag excl. BTW"))
    @@ (<<exp_header_row, 27>> :> StringCell("BTW"))
    @@ (<<exp_header_row, 30>> :> StringCell("Bedrag incl."))
    @@ [rc \in ((exp_header_row + 1)..(exp_header_row + 4)) \X {1, 3, 23, 27, 30} |->
          IF rc[2] = 23 THEN FormulaCell(ScaleFormula(<<"A", "E">>, rc[1] + 1, 100))
          ELSE IF rc[2] = 27 THEN FormulaCell(ScaleFormula(<<"A", "E">>, rc[1] + 1, 21))
          ELSE StringCell("")]
    @@ (<<exp_total_row, 3>> :> StringCell("Totaal"))
    @@ (<<exp_total_row, 23>> :>
          FormulaCell(SumFormula(<<"X">>, exp_header_row + 2, <<"X">>, exp_total_row)))
    @@ (<<exp_total_row, 27>> :>
          FormulaCell(SumFormula(<<"A", "B">>, exp_header_row + 2,
                                 <<"A", "B">>, exp_total_row)))
    @@ (<<exp_total_row, 30>> :>
          FormulaCell(SumFormula(<<"A", "E">>, exp_header_row + 2,
                                 <<"A", "E">>, exp_total_row)))

ExpenseMerges ==
    UNION {{<<r, 1, r, 2>>, <<r, 3, r, 22>>, <<r, 23, r, 26>>, <<r, 27, r, 29>>,
            <<r, 30, r, 33>>} : r \in exp_header_row..(exp_header_row + 4)}
    \cup {<<exp_total_row, 23, exp_total_row, 26>>,
          <<exp_total_row, 27, exp_total_row, 29>>,
          <<exp_total_row, 30, exp_total_row, 33>>}

\* the signature block with the date of the run in one more cell
SignatureCells_ExtraDate(project, now) ==
    (<<sign_row, 1>> :> StringCell("Opdrachtgever:"))
    @@ (<<sign_row + 1, 1>> :> StringCell(project))
    @@ (<<sign_row + 2, 1>> :> StringCell("Datum:"))
    @@ (<<sign_row + 3, 1>> :> StringCell(FormatDate(now)))
    @@ (<<sign_row, 23>> :> StringCell("Medewerker:"))
    @@ (<<sign_row + 1, 23>> :> StringCell(EmployeeName))
    @@ (<<sign_row + 2, 23>> :> StringCell("Datum:"))
    @@ (<<sign_row + 3, 23>> :> StringCell(FormatDate(now)))
    @@ (<<sign_row + 4, 1>> :> StringCell("Handtekening opdrachtgever:"))
    @@ (<<sign_row + 4, 10>> :> StringCell(FormatDate(now)))
    @@ (<<sign_row + 4, 23>> :> StringCell("Handtekening medewerker:"))
    @@ (<<sign_row + 5, 1>> :> StringCell(""))
    @@ (<<sign_row + 5, 23>> :> StringCell(""))

\* the signature block
SignatureCells(project, now) ==
    (<<sign_row, 1>> :> StringCell("Opdrachtgever:"))
    @@ (<<sign_row + 1, 1>> :> StringCell(project))
    @@ (<<sign_row + 2, 1>> :> StringCell("Datum:"))
    @@ (<<sign_row + 3, 1>> :> StringCell(FormatDate(now)))
    @@ (<<sign_row, 23>> :> StringCell("Medewerker:"))
    @@ (<<sign_row + 1, 23>> :> StringCell(EmployeeName))
    @@ (<<sign_row + 2, 23>> :> StringCell("Datum:"))
    @@ (<<sign_row + 3, 23>> :> StringCell(FormatDate(now)))
    @@ (<<sign_row + 4, 1>> :> StringCell("Handtekening opdrachtgever:"))
    @@ (<<sign_row + 4, 23>> :> StringCell("Handtekening medewerker:"))
    @@ (<<sign_row + 5, 1>> :> StringCell(""))
    @@ (<<sign_row + 5, 23>> :> StringCell(""))

SignatureMerges ==
    {<<sign_row + 5, 1, sign_row + 5, 9>>, <<sign_row + 5, 23, sign_row + 5, 32>>}

BuildSheet(table, project, sy, sm, now) ==
    [cells |->
        Override(Override(Override(HeaderCells(project, sy, sm, now),
                                   GridCells(table, project, sy, sm)),
                          ExpenseCells),
                 SignatureCells(project, now)),
     merges |-> HeaderMerges \cup ExpenseMerges \cup SignatureMerges,
     images |-> {<<2, 23, "logo.jpg">>, <<sign_row + 5, 23, "signature.png">>}]

\* SELECT DISTINCT project FROM timesheets
LoggedProjects == {e.project : e \in timesheets}

\* export_timesheet with the project picked, the answers (sy, sm) to its
\* prompts and the date of the run
ExportTimesheet(project, sy, sm, now) ==
    /\ mode = "main"
    /\ project \in LoggedProjects
    /\ sheet' = BuildSheet(timesheets, project, sy, sm, now)
    /\ output' = "File successfully generated"
    /\ UNCHANGED <<templates, timesheets, mode, week, result, month_view>>

\* export_timesheet when nothing is logged
ExportNothing ==
    /\ mode = "main"
    /\ LoggedProjects = {}
    /\ output' = "No projects found in logs to export."
    /\ UNCHANGED <<templates, timesheets, mode, week, result, month_view, sheet>>

\* (year, month) answers to the prompts of export_timesheet
ExportMonths == {<<2024, 1>>, <<2024, 2>>, <<2023, 2>>}

\* dates of a run
RunDates ==
    {[year |-> 2026, month |-> 11, day |-> 1],
     [year |-> 2027, month |-> 1, day |-> 1]}

\* week texts of the stores exported
ExportWeekList == <<Wk2024W05, Wk2024W5, Wk2023W05>>

InitExport ==
    /\ timesheets \in StoresOver(ExportWeekList)
    /\ templates = {}
    /\ mode = "main"
    /\ week = <<>>
    /\ result = "ok"
    /\ output = "none"
    /\ month_view = EmptyView
    /\ sheet = EmptySheet

NextExport ==
    \/ \E p \in Projects, ym \in ExportMonths, now \in RunDates :
          ExportTimesheet(p, ym[1], ym[2], now)
    \/ ExportNothing

SpecExport == InitExport /\ [][NextExport]_vars

----------------------------------------------------------------------------
(* The defaults the prompts offer, computed from the date of the run, and   *)
(* the commands with their prompts answered by the defaults                 *)

\* handle_log: format!("{}-W{:02}", year(), iso_week().week() + 1)
default_week(current_date) ==
    FormatWeek(current_date.year, IsoWeekOf(current_date).week + 1)

\* handle_month and export_timesheet: now.year()
default_year(now) == now.year

\* handle_month and export_timesheet: December in January, else the month
\* before
default_month(now) == IF now.month = 1 THEN 12 ELSE now.month - 1

StartLogDefault(current_date) == StartLog(default_week(current_date))

HandleMonthDefault(now) == HandleMonth(default_year(now), default_month(now))

ExportDefault(project, now) ==
    ExportTimesheet(project, default_year(now), default_month(now), now)

\* dates of a run: in the middle of a year, in January, and in the weeks
\* around the turn of a year
Today ==
    {[year |-> 2026, month |-> 11, day |-> 1],
     [year |-> 2026, month |-> 1, day |-> 15],
     [year |-> 2024, month |-> 12, day |-> 30],
     [year |-> 2026, month |-> 12, day |-> 28],
     [year |-> 2027, month |-> 1, day |-> 1]}

InitDefaults ==
    /\ timesheets \in {st \in StoresOver(<<Wk2024W05>>) : Cardinality(st) = 1}
    /\ templates = {}
    /\ mode = "main"
    /\ week = <<>>
    /\ result = "ok"
    /\ output = "none"
    /\ month_view = EmptyView
    /\ sheet = EmptySheet

NextDefaults ==
    \/ \E now \in Today : StartLogDefault(now)
    \/ LogDeclineSeed
    \/ LogExit
    \/ \E now \in Today : HandleMonthDefault(now)
    \/ \E p \in Projects, now \in Today : ExportDefault(p, now)

SpecDefaults == InitDefaults /\ [][NextDefaults]_vars

----------------------------------------------------------------------------
(* What the spreadsheet program computes for a cell *)

\* the value of a cell: a number is itself, text and blanks count as 0 in
\* a sum, a formula is evaluated
RECURSIVE CellValue(_, _, _)
CellValue(cells, r, c) ==
    IF <<r, c>> \notin DOMAIN cells THEN 0
    ELSE LET cell == cells[<<r, c>>]
         IN  IF cell.kind = "number" THEN cell.val
             ELSE IF cell.kind # "formula" THEN 0
             ELSE LET f == cell.val
                      rows == (f.r1 - 1)..(f.r2 - 1)
                      cols == ColumnNameToNumber(f.c1)..ColumnNameToNumber(f.c2)
                  IN  IF f.fn = "SUM"
                      THEN SumMap([rc \in rows \X cols |-> CellValue(cells, rc[1], rc[2])])
                      ELSE (CellValue(cells, f.r1 - 1, ColumnNameToNumber(f.c1)) * f.k)
                               \div 121

----------------------------------------------------------------------------
(* Properties of the monthly aggregation, checked under SpecMonth *)

SumCells(project_rows) ==
    SumMap([p \in DOMAIN project_rows |-> SumMap(project_rows[p])])

\* the accumulated cell of a project and day of month, None when absent
CellAt(view, p, d) ==
    IF p \in DOMAIN view.project_rows /\ d \in DOMAIN view.project_rows[p]
    THEN Some(view.project_rows[p][d])
    ELSE None

\* an accumulated cell as hours, an absent one as 0
CellHours(view, p, d) ==
    IF CellAt(view, p, d) = None THEN 0 ELSE CellAt(view, p, d)[1]

OptionHours(o) == IF o = None THEN 0 ELSE o[1]

\* C1: after handle_month has aggregated, the sum of all cells
\* project_rows[project][day] equals grand_total.
C1_CellsSumToGrandTotal ==
    month_view.shown => SumCells(month_view.project_rows) = month_view.grand_total

\* C1 witness: an aggregation with cells of two projects and a total that is
\* not zero.
C1_Witness ==
    /\ month_view.shown
    /\ Cardinality(DOMAIN month_view.project_rows) = 2
    /\ month_view.grand_total > 8
    /\ SumCells(month_view.project_rows) = month_view.grand_total

\* a week text in the canonical form "{isoYear}-W{isoWeek:02}"
IsCanonical(w) ==
    LET parts == SplitWeek(w)
    IN  /\ Len(parts) = 2
        /\ ParseI32(parts[1]) # None
        /\ ParseU32(parts[2]) # None
        /\ w = FormatWeek(ParseI32(parts[1])[1], ParseU32(parts[2])[1])

\* what the entries hold for a calendar date and a project: the hours at the
\* date's weekday of the entry of the date's ISO week, None when there is no
\* such date, no such entry or the hours are zero
HoursOnDate(table, p, y, m, d) ==
    LET date == FromYmdOpt(y, m, d)
    IN  IF date = None THEN None
        ELSE LET iso == IsoWeekOf(date[1])
                 hit == {r \in table : /\ r.week = FormatWeek(iso.year, iso.week)
                                       /\ r.project = p}
             IN  IF hit = {} THEN None
                 ELSE LET h == (CHOOSE r \in hit : TRUE).hours[WeekdayOfDate(date[1])]
                      IN  IF h = 0 THEN None ELSE Some(h)

AcmeWeek5 ==
    {[id |-> 1, week |-> Wk2024W05, project |-> "Acme", hours |-> HoursWorkWeek]}

\* C2: a non-zero hour value on weekday d of an entry in canonical week form
\* for week W is in the matrix of the target month exactly when the date of
\* (ISO year, ISO week, d) lies in that month, at that date's day of month:
\* with such entries only, each cell is the hours stored for its date, and
\* in any store such an entry adds to a cell what it holds for that date;
\* "2024-W05" with (8,8,8,8,8,0,0) gives days 29, 30, 31 of January 2024
\* and days 1, 2 of February 2024.
C2_WeekSplitAcrossMonths ==
    month_view.shown =>
        /\ (\A r \in timesheets : IsCanonical(r.week)) =>
              \A p \in Projects : \A d \in 1..31 :
                  CellAt(month_view, p, d) =
                      HoursOnDate(timesheets, p, month_view.year, month_view.month, d)
        /\ \A r \in timesheets :
              IsCanonical(r.week) =>
                  LET rest == Aggregate(RowsInOrder(timesheets \ {r}),
                                        month_view.year, month_view.month)
                  IN  \A p \in Projects : \A d \in 1..31 :
                          CellHours(month_view, p, d) - CellHours(rest, p, d) =
                              OptionHours(HoursOnDate({r}, p, month_view.year,
                                                      month_view.month, d))
        /\ (timesheets = AcmeWeek5 /\ month_view.year = 2024 /\ month_view.month = 1) =>
              month_view.project_rows = [p \in {"Acme"} |-> [d \in {29, 30, 31} |-> 8]]
        /\ (timesheets = AcmeWeek5 /\ month_view.year = 2024 /\ month_view.month = 2) =>
              month_view.project_rows = [p \in {"Acme"} |-> [d \in {1, 2} |-> 8]]

\* C2 witness: week 5 of 2024 aggregated for January 2024 has filled days 29
\* to 31 only.
C2_Witness ==
    /\ month_view.shown
    /\ timesheets = AcmeWeek5
    /\ month_view.year = 2024 /\ month_view.month = 1
    /\ DOMAIN month_view.project_rows["Acme"] = {29, 30, 31}

\* a week text matching <int>-W<2-digit-or-more int>
WellFormed(w) ==
    LET parts == SplitWeek(w)
    IN  /\ Len(parts) = 2
        /\ ParseI32(parts[1]) # None
        /\ Len(parts[2]) >= 2
        /\ \A i \in DOMAIN parts[2] : IsDigit(parts[2][i])

\* C3: rows whose week text is malformed contribute nothing to project_rows,
\* col_totals or grand_total: the aggregation equals that of the well-formed
\* rows alone.
C3_MalformedRowsSkipped ==
    month_view.shown =>
        month_view =
            Aggregate(RowsInOrder({r \in timesheets : WellFormed(r.week)}),
                      month_view.year, month_view.month)

\* the orders in which a set of rows can be read
Orders(rows) ==
    {f \in [1..Cardinality(rows) -> rows] :
        \A i, j \in 1..Cardinality(rows) : i # j => f[i] # f[j]}

NamesMissingWeek(w) ==
    LET parts == SplitWeek(w)
    IN  /\ Len(parts) = 2
        /\ ParseI32(parts[1]) # None
        /\ ParseU32(parts[2]) # None
        /\ \/ ParseU32(parts[2])[1] < 1
           \/ ParseU32(parts[2])[1] > WeeksInYear(ParseI32(parts[1])[1])

\* C16: a row whose week text names a week that does not exist (week 53 of
\* a year of 52 weeks, week 0) is not clamped to a week that does: it adds
\* nothing to any month, and the other rows are accumulated: the
\* aggregation equals that of the other rows alone.
C16_MissingWeekContributesNothing ==
    month_view.shown =>
        month_view =
            Aggregate(RowsInOrder({r \in timesheets : ~NamesMissingWeek(r.week)}),
                      month_view.year, month_view.month)

\* C16 witness: January 2024 aggregated from a row of week 53 of 2023 with
\* hours on five days and a row of week 5 of 2024: only the second is in
\* the matrix.
C16_Witness ==
    /\ month_view.shown
    /\ month_view.year = 2024 /\ month_view.month = 1
    /\ \E r \in timesheets :
          r.week = Wk2023W53 /\ r.project = "Acme" /\ r.hours = HoursWorkWeek
    /\ \E r \in timesheets : r.week = Wk2024W05 /\ r.project = "Beta"
    /\ DOMAIN month_view.project_rows = {"Beta"}
    /\ month_view.grand_total = 4

----------------------------------------------------------------------------
(* Properties of the template and log loops, checked under Spec *)

\* C4: no two templates share a project name and no two timesheets rows
\* share a (week, project) pair.
C4_KeysUnique ==
    /\ \A a, b \in templates : a.project = b.project => a = b
    /\ \A a, b \in timesheets : (a.week = b.week /\ a.project = b.project) => a = b

\* C4 witness: both tables hold two rows and the last insert was refused as
\* a duplicate.
C4_Witness ==
    /\ Cardinality(templates) = 2
    /\ Cardinality(timesheets) = 2
    /\ mode = "log"
    /\ result = "DuplicateKey"

\* C5: creating a template or adding a project whose key already exists
\* fails with DuplicateKey, the error is reported to the user, both tables
\* are unchanged and the loop continues.
C5_DuplicateCreateReported ==
    [][/\ \A p \in Projects, h \in TemplateHours :
             (TemplateCreate(p, h) /\ TemplateKeyTaken(p)) =>
                 /\ result' = "DuplicateKey" /\ output' = UniqueError
                 /\ UNCHANGED <<templates, timesheets, mode>>
       /\ \A p \in Projects :
             (LogAddProject(p) /\ EntryKeyTaken(week, p)) =>
                 /\ result' = "DuplicateKey" /\ output' = UniqueError
                 /\ UNCHANGED <<templates, timesheets, mode>>]_vars

\* C6: 'Edit Day' rejects a negative value, so every stored day-hour value
\* of every entry is >= 0.
C6_StoredHoursNonNegative ==
    \A e \in timesheets : \A d \in 1..7 : e.hours[d] >= 0

\* C7: 'Edit Day' on entry id for weekday d changes only field d of the row
\* with that id: its other six days, week and project, every other
\* timesheets row and all templates are unchanged.
C7_EditDayFrame ==
    [][\A id \in Ids, d \in DayChoices, v \in EditValues :
          LogEditDay(id, d, v) =>
              /\ templates' = templates
              /\ Cardinality(timesheets') = Cardinality(timesheets)
              /\ \A e \in timesheets :
                    IF e.id = id
                    THEN \E n \in timesheets' :
                            /\ n.id = id
                            /\ n.week = e.week
                            /\ n.project = e.project
                            /\ n.hours[d] = v
                            /\ \A k \in (1..7) \ {d} : n.hours[k] = e.hours[k]
                    ELSE e \in timesheets']_vars

\* C7 witness: an entry edited on Sunday next to an entry of the same
\* project in another week that keeps its hours, with templates stored.
C7_Witness ==
    /\ templates # {}
    /\ \E e, f \in timesheets :
          /\ e.hours[7] = 0 - 1
          /\ f.id # e.id /\ f.project = e.project /\ f.week # e.week
          /\ f.hours[7] # 0 - 1

\* C8: seeding a week creates, for every template, one entry of that week
\* with the template's project and hours, creates no other entry, and
\* leaves the templates and the entries already stored unchanged.
C8_SeedCopiesTemplates ==
    [][LogSeed =>
          /\ templates' = templates
          /\ timesheets \subseteq timesheets'
          /\ \A t \in templates :
                Cardinality({e \in timesheets' \ timesheets :
                                /\ e.week = week
                                /\ e.project = t.project
                                /\ e.hours = t.hours}) = 1
          /\ \A e \in timesheets' \ timesheets :
                /\ e.week = week
                /\ \E t \in templates : t.project = e.project /\ t.hours = e.hours]_vars

\* C8 witness: the week shown holds one entry per template, with the hours
\* of two different templates.
C8_Witness ==
    /\ mode = "log"
    /\ Cardinality(templates) = 2
    /\ Cardinality(Entries(week)) = 2
    /\ \A t \in templates :
          \E e \in Entries(week) :
              e.project = t.project /\ e.hours = t.hours /\ e.hours # HoursZero
    /\ \E t, u \in templates : t.hours # u.hours

\* C19: in the log loop the seed prompt is offered only while the week
\* shown has no entries, so the seed insert never meets the (week, project)
\* constraint; a confirmed seed goes back to the listing, which shows the
\* menu over the seeded entries when there was a template, and with no
\* template leaves the week empty and offers the seed prompt again.
C19_SeedOnlyOnEmptyWeek ==
    [][/\ (mode = "seed") => Entries(week) = {}
       /\ (mode' = "seed") => Entries(week)' = {}
       /\ LogSeed =>
             /\ \A t \in templates : ~EntryKeyTaken(week, t.project)
             /\ result' = "ok"
             /\ output' # UniqueError
             /\ week' = week
             /\ IF templates = {}
                THEN Entries(week)' = {} /\ mode' = "seed"
                ELSE Entries(week)' # {} /\ mode' = "log"]_vars

\* C19 witness: the menu over a week seeded from one template, while
\* another week holds an entry of the same project.
C19_Witness ==
    /\ mode = "log"
    /\ result = "ok"
    /\ Cardinality(templates) = 1
    /\ Cardinality(Entries(week)) = 1
    /\ \E t \in templates, e \in Entries(week), f \in timesheets :
          /\ e.project = t.project /\ e.hours = t.hours /\ e.hours # HoursZero
          /\ f.week # week /\ f.project = e.project

----------------------------------------------------------------------------
(* Properties of the exported worksheet, checked under SpecExport *)

DataRows == start_row_hours..(start_row_hours + 4)

\* C9: each of the 5 data rows has one SUM formula whose range is exactly
\* the 31 day columns of that row, so the row total counts the hours of day
\* 31 and leaves the description column out.
C9_RowTotalsCoverDayColumns ==
    sheet # EmptySheet =>
        \A r \in DataRows :
            LET cell == sheet.cells[<<r, 33>>]
            IN  /\ cell.kind = "formula"
                /\ cell.val.fn = "SUM"
                /\ cell.val.r1 = r + 1 /\ cell.val.r2 = r + 1
                /\ ColumnNameToNumber(cell.val.c1) = DayColumn(1)
                /\ ColumnNameToNumber(cell.val.c2) = DayColumn(31)
                /\ CellValue(sheet.cells, r, 33) =
                       SumMap([d \in 1..31 |-> CellValue(sheet.cells, r, DayColumn(d))])

\* C10: the value of the grand-total cell on the 'Totaal facturabel' row
\* equals the sum of the 31 per-day column totals of that row.
C10_GrandTotalSumsColumnTotals ==
    sheet # EmptySheet =>
        CellValue(sheet.cells, total_facturabel_row, 33) =
            SumMap([d \in 1..31 |->
                       CellValue(sheet.cells, total_facturabel_row, DayColumn(d))])

\* the days of a month that are calendar dates
ValidDays(sy, sm) == {d \in 1..31 : FromYmdOpt(sy, sm, d) # None}

\* the hours the entries of a project hold for a calendar date: the values
\* at the date's weekday of the entries whose week text is the canonical
\* text of the date's ISO week
LoggedOn(table, p, sy, sm, d) ==
    LET date == FromYmdOpt(sy, sm, d)[1]
        iso == IsoWeekOf(date)
    IN  {e.hours[WeekdayOfDate(date)] :
            e \in {x \in table : /\ x.week = FormatWeek(iso.year, iso.week)
                                 /\ x.project = p}}

\* the worksheet shown is the export of a project for a month of a year
SheetIsFor(p, sy, sm) ==
    /\ sheet # EmptySheet
    /\ sheet.cells[<<7, 2>>] = StringCell(p)
    /\ sheet.cells[<<4, 16>>] = StringCell(IntToText(sy))
    /\ sheet.cells[<<3, 16>>] = StringCell(month_name(sm))

\* C11: in an export, the hours-row cell of every valid day of the month
\* is a number exactly when hours above zero are stored for (the date's ISO
\* week text, the project, the date's weekday), and then holds them, and is
\* a blank otherwise; when the hours logged for the project in the month
\* are all zero, every hours-row cell is a blank and each of the 5
\* row-total and 31 column-total formulas is placed and evaluates to 0.
C11_HoursRowValues ==
    \A p \in Projects, ym \in ExportMonths :
        SheetIsFor(p, ym[1], ym[2]) =>
            LET days == ValidDays(ym[1], ym[2])
                stored(d) == LoggedOn(timesheets, p, ym[1], ym[2], d)
                cell(d) == sheet.cells[<<start_row_hours, DayColumn(d)>>]
            IN  /\ \A d \in days :
                      IF \E h \in stored(d) : h > 0
                      THEN cell(d).kind = "number" /\ cell(d).val \in stored(d)
                      ELSE cell(d).kind = "blank"
                /\ (\A d \in days : \A h \in stored(d) : h = 0) =>
                      /\ \A d \in days : cell(d).kind = "blank"
                      /\ \A r \in DataRows :
                            /\ sheet.cells[<<r, 33>>].kind = "formula"
                            /\ CellValue(sheet.cells, r, 33) = 0
                      /\ \A c \in 2..32 :
                            /\ sheet.cells[<<total_facturabel_row, c>>].kind
                                   = "formula"
                            /\ CellValue(sheet.cells, total_facturabel_row, c) = 0

AcmeMixedWeek5 ==
    {[id |-> 1, week |-> Wk2024W05, project |-> "Acme", hours |-> HoursMixed]}

\* C11 witness: the export of February 2024 for week 5 of 2024 with hours
\* (0,0,4,0,0,-2,6): Sunday the 4th holds 6, Saturday the 3rd (stored -2)
\* and Thursday the 1st (stored 0) are blanks, the 5th (nothing stored) too.
C11_Witness ==
    /\ timesheets = AcmeMixedWeek5
    /\ SheetIsFor("Acme", 2024, 2)
    /\ sheet.cells[<<start_row_hours, DayColumn(4)>>] = NumberCell(6)
    /\ sheet.cells[<<start_row_hours, DayColumn(3)>>].kind = "blank"
    /\ sheet.cells[<<start_row_hours, DayColumn(1)>>].kind = "blank"
    /\ sheet.cells[<<start_row_hours, DayColumn(5)>>].kind = "blank"

\* the rows of the calendar grid: the two header rows, the five data rows
\* and the 'Totaal facturabel' row
GridRows == start_row_cal..total_facturabel_row

\* the days 1..31 that are no dates of a month
InvalidDays(sy, sm) == (1..31) \ ValidDays(sy, sm)

\* C12 as stated: the grid of an export has 31 day columns, and in a month
\* of fewer than 31 days (February 2023: days 29-31) the columns of the
\* days that do not exist hold no numeric and no formula cell.
C12_PlaceholderColumnsNoFormula ==
    \A p \in Projects, ym \in ExportMonths :
        SheetIsFor(p, ym[1], ym[2]) =>
            /\ \A r \in GridRows \ {start_row_cal} :
                  {rc[2] : rc \in {x \in DOMAIN sheet.cells : x[1] = r}} \ {1, 33}
                      = {DayColumn(d) : d \in 1..31}
            /\ \A d \in InvalidDays(ym[1], ym[2]), r \in GridRows :
                  sheet.cells[<<r, DayColumn(d)>>].kind \notin {"number", "formula"}

\* C12, amended: the grid of an export has 31 day columns; in a month of
\* fewer than 31 days the columns of the days that do not exist (February
\* 2023: days 29-31) hold blanks in the weekday row, the day-number row and
\* the five data rows, so no weekday label, no day number and no hours
\* value; the 'Totaal facturabel' row holds its SUM formula in these
\* columns as in every day column, and there it evaluates to 0.
C12_PlaceholdersBlank ==
    \A p \in Projects, ym \in ExportMonths :
        SheetIsFor(p, ym[1], ym[2]) =>
            /\ \A r \in GridRows \ {start_row_cal} :
                  {rc[2] : rc \in {x \in DOMAIN sheet.cells : x[1] = r}} \ {1, 33}
                      = {DayColumn(d) : d \in 1..31}
            /\ {rc[2] : rc \in {x \in DOMAIN sheet.cells : x[1] = start_row_cal}}
                      = {DayColumn(d) : d \in 1..31}
            /\ \A d \in InvalidDays(ym[1], ym[2]) :
                  /\ \A r \in GridRows \ {total_facturabel_row} :
                        sheet.cells[<<r, DayColumn(d)>>].kind = "blank"
                  /\ sheet.cells[<<total_facturabel_row, DayColumn(d)>>].kind
                         = "formula"
                  /\ CellValue(sheet.cells, total_facturabel_row, DayColumn(d)) = 0

Acme2023Week5 ==
    {[id |-> 1, week |-> Wk2023W05, project |-> "Acme", hours |-> HoursWorkWeek]}

\* C12 witness: the export of February 2023 with hours on the 1st: day 28
\* has its number, days 29 to 31 have blanks in the header and hours rows.
C12_Witness ==
    /\ timesheets = Acme2023Week5
    /\ SheetIsFor("Acme", 2023, 2)
    /\ InvalidDays(2023, 2) = {29, 30, 31}
    /\ sheet.cells[<<start_row_hours, DayColumn(1)>>] = NumberCell(8)
    /\ sheet.cells[<<start_row_cal + 1, DayColumn(28)>>] = NumberCell(28)
    /\ \A d \in 29..31 :
          sheet.cells[<<start_row_cal + 1, DayColumn(d)>>].kind = "blank"

\* C17 as stated: an export of the project and month of the worksheet
\* already written, from the same stored hours, places the same cells with
\* the same contents, whatever the date of the run.
C17_ExportSameWhenever ==
    [][\A p \in Projects, ym \in ExportMonths, now \in RunDates :
          (SheetIsFor(p, ym[1], ym[2]) /\ ExportTimesheet(p, ym[1], ym[2], now)) =>
              sheet'.cells = sheet.cells]_vars

\* the cells that hold the date of the run: the fill date of the header
\* and the two dates of the signature block
DateCells == {<<5, 16>>, <<sign_row + 3, 1>>, <<sign_row + 3, 23>>}

\* C17, amended: an export of the project and month of the worksheet
\* already written, from the same stored hours, places the same cells,
\* merges and images, with the same contents everywhere but in the three
\* cells of the date of the run; run on the date of the first export it
\* gives the same worksheet.
C17_ExportSameButRunDate ==
    [][\A p \in Projects, ym \in ExportMonths, now \in RunDates :
          (SheetIsFor(p, ym[1], ym[2]) /\ ExportTimesheet(p, ym[1], ym[2], now)) =>
              /\ DOMAIN sheet'.cells = DOMAIN sheet.cells
              /\ sheet'.merges = sheet.merges
              /\ sheet'.images = sheet.images
              /\ \A rc \in DOMAIN sheet.cells \ DateCells :
                    sheet'.cells[rc] = sheet.cells[rc]
              /\ \A rc \in DateCells :
                    sheet'.cells[rc] = StringCell(FormatDate(now))
              /\ (sheet.cells[<<5, 16>>] = StringCell(FormatDate(now))) =>
                    sheet' = sheet]_vars

\* C17 witness: the worksheet of January 2024 with hours on the 29th,
\* written by a run on 1 January 2027.
C17_Witness ==
    /\ SheetIsFor("Acme", 2024, 1)
    /\ timesheets = AcmeWeek5
    /\ sheet.cells[<<start_row_hours, DayColumn(29)>>] = NumberCell(8)
    /\ \A rc \in DateCells :
          sheet.cells[rc] =
              StringCell(FormatDate([year |-> 2027, month |-> 1, day |-> 1]))

\* C18: the month view and the export agree: for the stored entries,
\* whatever week texts were typed in the log command, the value in the
\* hours row of an export for a valid day (a blank as 0) is the cell
\* project_rows[p][day] of the aggregation of that month (an absent cell
\* as 0).
C18_ExportAgreesWithMonthView ==
    \A p \in Projects, ym \in ExportMonths :
        SheetIsFor(p, ym[1], ym[2]) =>
            \A d \in ValidDays(ym[1], ym[2]) :
                CellValue(sheet.cells, start_row_hours, DayColumn(d)) =
                    CellHours(Aggregate(RowsInOrder(timesheets), ym[1], ym[2]), p, d)

----------------------------------------------------------------------------
(* Properties of the defaults, checked under SpecDefaults *)

AddDays(date, n) ==
    CivilFromDays(DaysFromCivil(date.year, date.month, date.day) + n)

\* the ISO week of a week text, None when the text names no existing week
WeekNamed(w) ==
    LET parts == SplitWeek(w)
    IN  IF Len(parts) # 2 \/ ParseI32(parts[1]) = None \/ ParseU32(parts[2]) = None
        THEN None
        ELSE IF FromIsoywdOpt(ParseI32(parts[1])[1], ParseU32(parts[2])[1], 1) = None
        THEN None
        ELSE Some([year |-> ParseI32(parts[1])[1], week |-> ParseU32(parts[2])[1]])

\* C13: the default week of the log command is the ISO week that follows
\* the ISO week of the date of the run, in the form "{isoYear}-W{isoWeek:02}":
\* it names an ISO week that exists, with the ISO year, and week 1 of the
\* next ISO year after the last week of a year.
C13_DefaultWeekIsNextIsoWeek ==
    [][\A now \in Today :
          StartLogDefault(now) =>
              LET following == IsoWeekOf(AddDays(now, 7))
              IN  /\ WeekNamed(week') # None
                  /\ WeekNamed(week') = Some(following)
                  /\ week' = FormatWeek(following.year, following.week)]_vars

\* the month before the month of a date
PreviousMonth(date) ==
    LET last == CivilFromDays(DaysFromCivil(date.year, date.month, 1) - 1)
    IN  [year |-> last.year, month |-> last.month]

\* C14: the (year, month) the month and export commands take by default is
\* the calendar month before the month of the date of the run; in January
\* of year Y it is (Y-1, 12).
C14_DefaultMonthIsPrevious ==
    [][\A now \in Today :
          LET previous == PreviousMonth(now)
          IN  /\ (now.month = 1) =>
                    previous = [year |-> now.year - 1, month |-> 12]
              /\ HandleMonthDefault(now) =>
                    /\ month_view'.year = previous.year
                    /\ month_view'.month = previous.month
              /\ \A p \in Projects :
                    ExportDefault(p, now) =>
                        /\ sheet'.cells[<<4, 16>>].val = IntToText(previous.year)
                        /\ sheet'.cells[<<3, 16>>].val = month_name(previous.month)
      ]_vars

====
